---- MODULE Spec2Model ----
(***************************************************************************)
(* A model of the conlang reader: the value model of src/src/ast.rs, the   *)
(* nom grammar of src/src/parser.rs, the line reader ConlangReader and the *)
(* interactive loop of src/src/main.rs.                                    *)
(*                                                                         *)
(* Text is a sequence of one-character strings.  The grammar is written    *)
(* with nom 4 macros over &str, a streaming input: a parser that reaches   *)
(* the end of the text while it could still take more reports Incomplete,  *)
(* not Error, and complete! turns Incomplete into Error.  A parser result  *)
(* is a record [st, rest, out, h]: st is "Ok", "Error", "Incomplete" or    *)
(* "Panic" (a Rust panic unwinding through the parser), rest the           *)
(* unconsumed text, out the output, h the heap of Rc allocations.          *)
(***************************************************************************)
EXTENDS Integers, Sequences, FiniteSets, TLC

VARIABLES
    overflow_checks,  \* build profile: TRUE panics on integer overflow, FALSE wraps
    heap,             \* SpecAst: the Rc allocations made so far
    last,             \* SpecAst: the last constructor call or comparison
    inp,              \* SpecParse, SpecSeq, SpecNumber: the text handed to a parser
    pres,             \* SpecParse, SpecSeq, SpecNumber: the parser applied and its result
    src_left,         \* reader: lines the line source still holds
    pre_left,         \* reader: src_left when the last call began
    calls,            \* reader: calls made so far
    buf,              \* reader: the line pulled by the last call
    res,              \* reader: what the last parse_next returned
    op,               \* reader: the last call, "parse_next" or "next" ("none" before any)
    item,             \* reader: what the last call yielded as Iterator::next (<<>>: None)
    seen_leftover,    \* reader: a pull on the value sequence has hit TooMuchInput
    status,           \* reader: "running", "returned" (repl returned) or "aborted" (panic)
    hist,             \* repl: the parse_next result of every pull, in order
    out               \* repl: the values written to the printer, in order

vars == <<overflow_checks, heap, last, inp, pres, src_left, pre_left, calls,
          buf, res, op, item, seen_leftover, status, hist, out>>

astVars == <<heap, last>>
parseVars == <<inp, pres>>
readerVars ==
    <<src_left, pre_left, calls, buf, res, op, item, seen_leftover, status, hist, out>>

(***************************************************************************)
(* Bounds                                                                  *)
(***************************************************************************)
MaxAllocs == 2      \* Rc allocations in SpecAst
MaxParts == 2       \* length of a list handed to make_sequence / make_complement
MaxTextLen == 4     \* length of a text in SpecParse
MaxElems == 3       \* elements of a generated sequence text in SpecSeq
MaxDigits == 10     \* digits of a literal in SpecNumber
MaxLineLen == 2     \* length of a line in Spec and SpecRepl
MaxLines == 3       \* lines the source holds at most
MaxCalls == 3       \* calls on the reader in Spec

(***************************************************************************)
(* Characters                                                              *)
(***************************************************************************)
Digits == {"0", "1", "2", "3", "4", "5", "6", "7", "8", "9"}

DigitVal(c) ==
    CASE c = "0" -> 0 [] c = "1" -> 1 [] c = "2" -> 2 [] c = "3" -> 3
      [] c = "4" -> 4 [] c = "5" -> 5 [] c = "6" -> 6 [] c = "7" -> 7
      [] c = "8" -> 8 [] c = "9" -> 9

is_dec_digit(c) == c \in Digits

\* const WHITESPACE: &str = " \t\n"
is_whitespace(c) == c \in {" ", "\t", "\n"}

\* char::is_whitespace of the standard library (Unicode White_Space), on the
\* characters of the model: "\r" stands for the White_Space characters that
\* are not in WHITESPACE (carriage return, form feed, U+00A0, U+3000, ...).
char_is_whitespace(c) == c \in {" ", "\t", "\n", "\r"}

\* take_until_either1!(".:, \t\n)]}\"'")
WordTerminators == {".", ":", ",", " ", "\t", "\n", ")", "]", "}", "\"", "'"}

Drop(s, n) == SubSeq(s, n + 1, Len(s))
Take(s, n) == SubSeq(s, 1, n)

\* The first position of s, from k on, whose character is in set (FirstIn) or
\* is not in set (FirstNotIn); 0 when there is none.
RECURSIVE FirstIn(_, _, _)
FirstIn(s, set, k) ==
    IF k > Len(s) THEN 0
    ELSE IF s[k] \in set THEN k ELSE FirstIn(s, set, k + 1)

RECURSIVE FirstNotIn(_, _, _)
FirstNotIn(s, set, k) ==
    IF k > Len(s) THEN 0
    ELSE IF s[k] \notin set THEN k ELSE FirstNotIn(s, set, k + 1)

(***************************************************************************)
(* Values (src/src/ast.rs).  A Word, Complement, Verb or Sequence holds an *)
(* Rc: ref is the address of its allocation in the heap.                   *)
(***************************************************************************)
Nil == [tag |-> "Nil"]
Number(f) == [tag |-> "Number", n |-> f]
RcValue(t, a) == [tag |-> t, ref |-> a]

WordNode(text) == [kind |-> "Word", text |-> text]
PairNode(head, tail) == [kind |-> "Pair", head |-> head, tail |-> tail]
VecNode(items) == [kind |-> "Vec", items |-> items]
VerbNode(name) == [kind |-> "Verb", name |-> name]

\* Rc::new: the new heap and the address of the allocation.
Alloc(h, node) == [h |-> Append(h, node), ref |-> Len(h) + 1]

\* An f64.  make_number computes it as ((whole + num / 10^len) * 10^exp) * sign
\* in floating point; the record keeps the operands of that computation.  whole,
\* num and exp are u32 values (see U32).  frac and exp are <<>> when absent.
F64(neg, whole, frac, exp) ==
    [nan |-> FALSE, neg |-> neg, whole |-> whole, frac |-> frac, exp |-> exp]
NaN == [nan |-> TRUE, neg |-> FALSE, whole |-> <<0, 0>>, frac |-> <<>>, exp |-> <<>>]

\* A u32 as two 16-bit limbs <<hi, lo>>: 2^32 exceeds the integers of TLC.
Limb == 65536
U32(n) == <<n \div Limb, n % Limb>>

\* f64 == on integral values (frac and exp absent), NaN included: NaN equals
\* nothing, and 0.0 equals -0.0.
f64_eq(x, y) ==
    /\ ~x.nan
    /\ ~y.nan
    /\ \/ x = y
       \/ /\ x.whole = <<0, 0>> /\ y.whole = <<0, 0>>
          /\ x.frac = <<>> /\ y.frac = <<>>

make_word(h, text) ==
    LET a == Alloc(h, WordNode(text))
    IN  [h |-> a.h, val |-> RcValue("Word", a.ref)]

make_sequence(h, contents) ==
    LET a == Alloc(h, VecNode(contents))
    IN  [h |-> a.h, val |-> RcValue("Sequence", a.ref)]

\* make_complement without the arm for an empty tail: C5 fails of it.
make_complement_nil(h, head, tail) ==
    IF Len(tail) = 1
    THEN LET a == Alloc(h, PairNode(head, tail[1]))
         IN  [h |-> a.h, val |-> RcValue("Complement", a.ref)]
    ELSE LET s == make_sequence(h, tail)
             a == Alloc(s.h, PairNode(head, s.val))
         IN  [h |-> a.h, val |-> RcValue("Complement", a.ref)]

\* Value::make_complement: the arms [], [tail] and _ of the match.
make_complement(h, head, tail) ==
    IF tail = <<>> THEN [h |-> h, val |-> head]
    ELSE IF Len(tail) = 1
    THEN LET a == Alloc(h, PairNode(head, tail[1]))
         IN  [h |-> a.h, val |-> RcValue("Complement", a.ref)]
    ELSE LET s == make_sequence(h, tail)
             a == Alloc(s.h, PairNode(head, s.val))
         IN  [h |-> a.h, val |-> RcValue("Complement", a.ref)]

\* eq with an arm comparing Sequences by Rc::ptr_eq: C6 fails of it.
eq_seq_by_ptr(h, lhs, rhs) ==
    CASE lhs.tag = "Word" /\ rhs.tag = "Word" -> h[lhs.ref].text = h[rhs.ref].text
      [] lhs.tag = "Complement" /\ rhs.tag = "Complement" -> lhs.ref = rhs.ref
      [] lhs.tag = "Verb" /\ rhs.tag = "Verb" -> lhs.ref = rhs.ref
      [] lhs.tag = "Number" /\ rhs.tag = "Number" -> f64_eq(lhs.n, rhs.n)
      [] lhs.tag = "Sequence" /\ rhs.tag = "Sequence" -> lhs.ref = rhs.ref
      [] OTHER -> FALSE

\* impl PartialEq for Value
eq(h, lhs, rhs) ==
    CASE lhs.tag = "Word" /\ rhs.tag = "Word" -> h[lhs.ref].text = h[rhs.ref].text
      [] lhs.tag = "Complement" /\ rhs.tag = "Complement" -> lhs.ref = rhs.ref
      [] lhs.tag = "Verb" /\ rhs.tag = "Verb" -> lhs.ref = rhs.ref
      [] lhs.tag = "Number" /\ rhs.tag = "Number" -> f64_eq(lhs.n, rhs.n)
      [] OTHER -> FALSE

(***************************************************************************)
(* nom 4 over &str (macros used by src/src/parser.rs)                      *)
(***************************************************************************)
Ok(rest, o, h) == [st |-> "Ok", rest |-> rest, out |-> o, h |-> h]
Fail(kind) == [st |-> kind, rest |-> <<>>, out |-> Nil, h |-> <<>>]

\* complete!: Incomplete becomes Error.
complete(r) == IF r.st = "Incomplete" THEN Fail("Error") ELSE r

\* opt!: Error becomes Ok(None) on the untouched input i; Incomplete stays.
opt(i, r) ==
    IF r.st = "Ok" THEN Ok(r.rest, <<r.out>>, <<>>)
    ELSE IF r.st = "Error" THEN Ok(i, <<>>, <<>>)
    ELSE r

\* tag!: Incomplete when the input is a proper prefix of the tag.
tag(i, t) ==
    LET n == IF Len(i) < Len(t) THEN Len(i) ELSE Len(t)
    IN  IF \E k \in 1..n : i[k] # t[k] THEN Fail("Error")
        ELSE IF Len(i) >= Len(t) THEN Ok(Drop(i, Len(t)), t, <<>>)
        ELSE Fail("Incomplete")

\* char!
char(i, c) ==
    IF i = <<>> THEN Fail("Incomplete")
    ELSE IF i[1] = c THEN Ok(Tail(i), c, <<>>)
    ELSE Fail("Error")

\* one_of!
one_of(i, set) ==
    IF i = <<>> THEN Fail("Incomplete")
    ELSE IF i[1] \in set THEN Ok(Tail(i), i[1], <<>>)
    ELSE Fail("Error")

\* take_while!: Incomplete when every character to the end matches.
take_while(i, set) ==
    LET k == FirstNotIn(i, set, 1)
    IN  IF k = 0 THEN Fail("Incomplete")
        ELSE Ok(Drop(i, k - 1), Take(i, k - 1), <<>>)

\* take_while1!
take_while1(i, set) ==
    LET k == FirstNotIn(i, set, 1)
    IN  IF k = 0 THEN Fail("Incomplete")
        ELSE IF k = 1 THEN Fail("Error")
        ELSE Ok(Drop(i, k - 1), Take(i, k - 1), <<>>)

\* take_until_either1!: Incomplete when no terminator occurs.
take_until_either1(i, set) ==
    LET k == FirstIn(i, set, 1)
    IN  IF k = 0 THEN Fail("Incomplete")
        ELSE IF k = 1 THEN Fail("Error")
        ELSE Ok(Drop(i, k - 1), Take(i, k - 1), <<>>)

(***************************************************************************)
(* The grammar (src/src/parser.rs)                                         *)
(***************************************************************************)
decimal(i) == take_while1(i, Digits)

\* One round of the loop of str_to_int on the u32 n: n *= radix; n += digit.
\* ovf: one of the two operations overflowed 32 bits.
MulAdd(n, radix, d) ==
    LET lo1 == n[2] * radix
        hi1 == n[1] * radix + (lo1 \div Limb)
        lo2 == (lo1 % Limb) + d
        hi2 == (hi1 % Limb) + (lo2 \div Limb)
    IN  [n |-> <<hi2 % Limb, lo2 % Limb>>, ovf |-> hi1 >= Limb \/ hi2 >= Limb]

RECURSIVE str_to_int_from(_, _, _, _)
str_to_int_from(s, radix, k, n) ==
    IF k > Len(s) THEN [st |-> "Ok", n |-> n]
    ELSE LET r == MulAdd(n, radix, DigitVal(s[k]))
         IN  IF r.ovf /\ overflow_checks THEN [st |-> "Panic", n |-> n]
             ELSE str_to_int_from(s, radix, k + 1, r.n)

str_to_int(s, radix) == str_to_int_from(s, radix, 1, <<0, 0>>)

make_number(sgn, whole_part, fractional_part, exponent) ==
    LET w == str_to_int(whole_part, 10)
        f == IF fractional_part = <<>> THEN [st |-> "Ok", n |-> <<0, 0>>]
             ELSE str_to_int(fractional_part[1], 10)
        e == IF exponent = <<>> THEN [st |-> "Ok", n |-> <<0, 0>>]
             ELSE str_to_int(exponent[1], 10)
    IN  IF w.st = "Panic" \/ f.st = "Panic" \/ e.st = "Panic"
        THEN [st |-> "Panic", val |-> Nil]
        ELSE [st |-> "Ok",
              val |-> Number(F64(sgn = <<"Negative">>,
                                 w.n,
                                 IF fractional_part = <<>> THEN <<>>
                                 ELSE <<[num |-> f.n, len |-> Len(fractional_part[1])]>>,
                                 IF exponent = <<>> THEN <<>> ELSE <<e.n>>))]

whitespace(i) == take_while(i, {" ", "\t", "\n"})

\* token! without opt!(whitespace): C10 fails of it.
token_no_whitespace(r) == complete(r)

\* token!: tuple!(complete!(inner), opt!(whitespace)); r is inner's result.
token(r) ==
    LET c == complete(r)
    IN  IF c.st # "Ok" THEN c
        ELSE LET w == opt(c.rest, whitespace(c.rest))
             IN  IF w.st # "Ok" THEN w ELSE Ok(w.rest, c.out, <<>>)

sign(i) ==
    LET p == tag(i, <<"+">>)
    IN  IF p.st = "Ok" THEN Ok(p.rest, "Positive", <<>>)
        ELSE IF p.st # "Error" THEN p
        ELSE LET m == tag(i, <<"-">>)
             IN  IF m.st = "Ok" THEN Ok(m.rest, "Negative", <<>>) ELSE m

\* preceded!(tag!("."), decimal)
fractional(i) ==
    LET t == tag(i, <<".">>)
    IN  IF t.st # "Ok" THEN t ELSE decimal(t.rest)

\* preceded!(one_of!("eE"), decimal)
exponent_part(i) ==
    LET t == one_of(i, {"e", "E"})
    IN  IF t.st # "Ok" THEN t ELSE decimal(t.rest)

number(i, h) ==
    LET s == opt(i, sign(i))
    IN  IF s.st # "Ok" THEN s
        ELSE LET w == decimal(s.rest)
             IN  IF w.st # "Ok" THEN w
                 ELSE LET f == opt(w.rest, complete(fractional(w.rest)))
                          e == opt(f.rest, complete(exponent_part(f.rest)))
                          m == make_number(s.out, w.out, f.out, e.out)
                      IN  IF m.st = "Panic" THEN Fail("Panic")
                          ELSE Ok(e.rest, m.val, h)

word_str(i) == take_until_either1(i, WordTerminators)

word(i, h) ==
    LET r == word_str(i)
    IN  IF r.st # "Ok" THEN r
        ELSE LET w == make_word(h, r.out) IN Ok(r.rest, w.val, w.h)

seq_delimiter(i) == token(one_of(i, {",", ";"}))

\* A parsed value and the heap it lives in, as a parser result.
OkValue(rest, mv) == Ok(rest, mv.val, mv.h)

RECURSIVE value(_, _)
RECURSIVE many0_complement_part(_, _, _, _)
RECURSIVE separated_list_loop(_, _, _, _)

\* complement_part!: tuple!(tag!(pfx), char!(':'), value), one stage each; t and
\* c are the results of the stages before.
complement_part_value(c, h) ==
    IF c.st # "Ok" THEN c ELSE value(c.rest, h)

complement_part_colon(t, h) ==
    IF t.st # "Ok" THEN t ELSE complement_part_value(char(t.rest, ":"), h)

complement_part(i, h, pfx) == complement_part_colon(tag(i, pfx), h)

\* One round of many0!(complete!(complement_part!(prefix))): r is the result
\* of the part tried on i, acc the parts parsed before.
many0_step(r, i, h, pfx, acc) ==
    IF r.st = "Ok"
    THEN IF r.rest = i THEN Fail("Error")
         ELSE many0_complement_part(r.rest, r.h, pfx, Append(acc, r.out))
    ELSE IF r.st = "Error" THEN Ok(i, acc, h)
    ELSE r

many0_complement_part(i, h, pfx, acc) ==
    many0_step(complete(complement_part(i, h, pfx)), i, h, pfx, acc)

\* complement: do_parse!(prefix: word_str >> char!(':') >> head: value >>
\* comp: many0!(...) >> (Value::make_complement(head, comp))), one stage each.
complement_make(head, m) ==
    IF m.st # "Ok" THEN m
    ELSE OkValue(m.rest, make_complement(m.h, head, m.out))

complement_comp(pfx, hd) ==
    IF hd.st # "Ok" THEN hd
    ELSE complement_make(hd.out, many0_complement_part(hd.rest, hd.h, pfx, <<>>))

complement_head(pfx, c, h) ==
    IF c.st # "Ok" THEN c ELSE complement_comp(pfx, value(c.rest, h))

complement_colon(p, h) ==
    IF p.st # "Ok" THEN p ELSE complement_head(p.out, char(p.rest, ":"), h)

complement(i, h) == complement_colon(word_str(i), h)

\* separated_nonempty_list!(token!(char!(delim)), value).  After the first
\* element the loop tries the separator on i (separated_list_sep, s its
\* result), then the next element (separated_list_elem, e its result, i2_len
\* the length of the text after the separator); acc holds the elements so far.
separated_list_elem(e, i2_len, i, h, delim, acc) ==
    IF e.st = "Error" THEN Ok(i, acc, h)
    ELSE IF e.st # "Ok" THEN e
    ELSE IF Len(e.rest) = i2_len THEN Ok(i, acc, h)
    ELSE separated_list_loop(e.rest, e.h, delim, Append(acc, e.out))

separated_list_sep(s, i, h, delim, acc) ==
    IF s.st = "Error" THEN Ok(i, acc, h)
    ELSE IF s.st # "Ok" THEN s
    ELSE IF Len(s.rest) = Len(i) THEN Ok(i, acc, h)
    ELSE separated_list_elem(value(s.rest, h), Len(s.rest), i, h, delim, acc)

separated_list_loop(i, h, delim, acc) ==
    separated_list_sep(token(char(i, delim)), i, h, delim, acc)

\* separated_nonempty_list! that stops after its first element: C7 fails of it.
separated_list_first_only(first, i, delim) ==
    IF first.st # "Ok" THEN first
    ELSE IF Len(first.rest) = Len(i) THEN Fail("Error")
    ELSE Ok(first.rest, <<first.out>>, first.h)

\* The first element of the list, first its result on i.
separated_list_first(first, i, delim) ==
    IF first.st # "Ok" THEN first
    ELSE IF Len(first.rest) = Len(i) THEN Fail("Error")
    ELSE separated_list_loop(first.rest, first.h, delim, <<first.out>>)

separated_nonempty_list(i, h, delim) ==
    separated_list_first(value(i, h), i, delim)

\* sequence: do_parse!(delim: seq_delimiter >> values: separated_nonempty_list!
\* (...) >> (Value::make_sequence(values))), one stage each.
sequence_make(l) ==
    IF l.st # "Ok" THEN l ELSE OkValue(l.rest, make_sequence(l.h, l.out))

sequence_values(d, h) ==
    IF d.st # "Ok" THEN d
    ELSE sequence_make(separated_nonempty_list(d.rest, h, d.out))

sequence(i, h) == sequence_values(seq_delimiter(i), h)

\* alt! that tries the next alternative after Incomplete too: C9 fails of it.
alt_skip_incomplete(r, others) == IF r.st = "Ok" THEN r ELSE others

\* One arm of alt!: r is the result of the alternative tried, others the
\* result of the alternatives after it, tried only after an Error: Incomplete
\* (and a panic) ends the attempt at once.
alt(r, others) == IF r.st # "Error" THEN r ELSE others

\* alt!(complement | sequence | number | word)
value(i, h) ==
    alt(complement(i, h), alt(sequence(i, h), alt(number(i, h), word(i, h))))

\* terminated!(value, opt!(complete!(char!('.')))); v is the result of value.
value_line_stop(v) ==
    IF v.st # "Ok" THEN v
    ELSE Ok(opt(v.rest, complete(char(v.rest, "."))).rest, v.out, v.h)

value_line(i, h) == value_line_stop(value(i, h))

(***************************************************************************)
(* Idle values of the variables a specification does not use               *)
(***************************************************************************)
NoCall == [op |-> "none", args |-> <<>>, result |-> Nil, h0 |-> 0]
NoResult == [kind |-> "none", val |-> Nil, h |-> <<>>, rest |-> <<>>, line |-> <<>>]
NoParse == [parser |-> "none", r |-> Fail("none")]

AstIdle == heap = <<>> /\ last = NoCall
ParseIdle == inp = <<>> /\ pres = NoParse
ReaderIdle ==
    /\ src_left = 0 /\ pre_left = 0 /\ calls = 0 /\ buf = <<>>
    /\ res = NoResult /\ op = "none" /\ item = <<>> /\ seen_leftover = FALSE
    /\ status = "running" /\ hist = <<>> /\ out = <<>>

(***************************************************************************)
(* SpecAst: a client of the value model builds values with the             *)
(* constructors of ast.rs and with the complement parser, and compares     *)
(* them.  Cloning a Value copies the handle: the same ref.  The client     *)
(* takes the result of a call (Resume) before its next call.               *)
(***************************************************************************)
WordTexts == {<<"e">>, <<"e", "e">>}
F64Samples == {F64(FALSE, U32(1), <<>>, <<>>), F64(FALSE, U32(0), <<>>, <<>>), NaN}
ComplementTexts ==
    { <<"e", ":", "1", " ">>,
      <<"e", ":", "e", ".">>,
      <<"e", ":", "1", ".", "2", "e", ":", "3", " ">>,
      <<"e", ":", "1", ".", "2", "e", ":", "3", ".", "4", "e", ":", "5", " ">>,
      <<"e", " ">> }

TagOf(node) ==
    CASE node.kind = "Word" -> "Word"
      [] node.kind = "Pair" -> "Complement"
      [] node.kind = "Vec" -> "Sequence"
      [] node.kind = "Verb" -> "Verb"

\* The values a client can hold over heap h: the values it builds values from
\* (Parts) and, with every sample number, the values it compares (Handles).
Parts(h) ==
    {Number(F64(FALSE, U32(1), <<>>, <<>>))}
        \cup {RcValue(TagOf(h[a]), a) : a \in 1..Len(h)}

Handles(h) == Parts(h) \cup {Nil} \cup {Number(f) : f \in F64Samples}

Lists(S, n) == UNION {[1..k -> S] : k \in 0..n}

\* No text of ComplementTexts holds a literal that overflows a u32: the build
\* profile makes no difference here.
InitAst ==
    /\ overflow_checks = TRUE
    /\ AstIdle /\ ParseIdle /\ ReaderIdle

MakeWord ==
    /\ last.op = "none"
    /\ Len(heap) < MaxAllocs
    /\ \E text \in WordTexts :
         LET r == make_word(heap, text)
         IN  /\ heap' = r.h
             /\ last' = [op |-> "make_word", args |-> <<text>>, result |-> r.val,
                         h0 |-> Len(heap)]
    /\ UNCHANGED <<overflow_checks, parseVars, readerVars>>

\* An implementor of the trait Verb, wrapped by From<Rc<dyn Verb>>.
NewVerb ==
    /\ last.op = "none"
    /\ Len(heap) < MaxAllocs
    /\ LET a == Alloc(heap, VerbNode(<<>>))
       IN  /\ heap' = a.h
           /\ last' = [op |-> "verb", args |-> <<>>, result |-> RcValue("Verb", a.ref),
                       h0 |-> Len(heap)]
    /\ UNCHANGED <<overflow_checks, parseVars, readerVars>>

MakeSequence ==
    /\ last.op = "none"
    /\ Len(heap) < MaxAllocs
    /\ \E contents \in Lists(Parts(heap), MaxParts) :
         LET r == make_sequence(heap, contents)
         IN  /\ heap' = r.h
             /\ last' = [op |-> "make_sequence", args |-> <<contents>>,
                         result |-> r.val, h0 |-> Len(heap)]
    /\ UNCHANGED <<overflow_checks, parseVars, readerVars>>

MakeComplement ==
    /\ last.op = "none"
    /\ \E head \in Parts(heap), tail \in Lists(Parts(heap), MaxParts) :
         LET r == make_complement(heap, head, tail)
         IN  /\ Len(r.h) <= MaxAllocs
             /\ heap' = r.h
             /\ last' = [op |-> "make_complement", args |-> <<head, tail>>,
                         result |-> r.val, h0 |-> Len(heap)]
    /\ UNCHANGED <<overflow_checks, parseVars, readerVars>>

ReadComplement ==
    /\ last.op = "none"
    /\ \E t \in ComplementTexts :
         LET r == complement(t, heap)
         IN  /\ Len(r.h) <= MaxAllocs
             /\ heap' = IF r.st = "Ok" THEN r.h ELSE heap
             /\ last' = [op |-> "complement", args |-> <<t>>, result |-> r,
                         h0 |-> Len(heap)]
    /\ UNCHANGED <<overflow_checks, parseVars, readerVars>>

Compare ==
    /\ last.op = "none"
    /\ \E a \in Handles(heap), b \in Handles(heap) :
         last' = [op |-> "eq", args |-> <<a, b>>, result |-> eq(heap, a, b),
                  h0 |-> Len(heap)]
    /\ UNCHANGED <<heap, overflow_checks, parseVars, readerVars>>

Resume ==
    /\ last.op # "none"
    /\ last' = NoCall
    /\ UNCHANGED <<heap, overflow_checks, parseVars, readerVars>>

NextAst ==
    \/ MakeWord
    \/ NewVerb
    \/ MakeSequence
    \/ MakeComplement
    \/ ReadComplement
    \/ Compare
    \/ Resume

SpecAst == InitAst /\ [][NextAst]_vars

\* The heap as it was when the last call began: allocations are only added.
HeapBefore == Take(heap, last.h0)

\* The texts of ComplementTexts that hold prefix:value with no repeated part.
NoRepeatedPart == {<<"e", ":", "1", " ">>, <<"e", ":", "e", ".">>}

C6_Equality ==
    last.op = "eq" =>
      LET a == last.args[1]
          b == last.args[2]
      IN  /\ last.result <=>
               \/ a.tag = "Word" /\ b.tag = "Word"
                    /\ heap[a.ref].text = heap[b.ref].text
               \/ a.tag = "Number" /\ b.tag = "Number" /\ f64_eq(a.n, b.n)
               \/ a.tag = b.tag /\ a.tag \in {"Complement", "Verb"} /\ a.ref = b.ref
          /\ a.tag = "Sequence" /\ b.tag = "Sequence" => ~last.result
          /\ a.tag = "Complement" /\ b.tag = "Complement" /\ a.ref # b.ref => ~last.result
          /\ a.tag # b.tag => ~last.result

\* C6 witness: two Complements built separately from equal heads and tails
\* were compared, and compared unequal.
C6_Witness ==
    /\ last.op = "eq"
    /\ last.args[1].tag = "Complement" /\ last.args[2].tag = "Complement"
    /\ last.args[1].ref # last.args[2].ref
    /\ heap[last.args[1].ref] = heap[last.args[2].ref]
    /\ last.result = FALSE

(***************************************************************************)
(* SpecParse: one of the parsers of parser.rs is applied to a text.        *)
(***************************************************************************)
ParseAlphabet == {"e", "1", ":", ",", ".", " ", "-"}

Texts(A, n) == UNION {[1..k -> A] : k \in 0..n}

\* No text of MaxTextLen characters holds a literal that overflows a u32.
InitParse ==
    /\ overflow_checks = TRUE
    /\ inp \in Texts(ParseAlphabet, MaxTextLen)
    /\ pres = NoParse
    /\ AstIdle /\ ReaderIdle

ApplyValue ==
    /\ pres.parser = "none"
    /\ pres' = [parser |-> "value", r |-> value(inp, <<>>)]
    /\ UNCHANGED <<overflow_checks, inp, astVars, readerVars>>

ApplyComplement ==
    /\ pres.parser = "none"
    /\ pres' = [parser |-> "complement", r |-> complement(inp, <<>>)]
    /\ UNCHANGED <<overflow_checks, inp, astVars, readerVars>>

ApplySequence ==
    /\ pres.parser = "none"
    /\ pres' = [parser |-> "sequence", r |-> sequence(inp, <<>>)]
    /\ UNCHANGED <<overflow_checks, inp, astVars, readerVars>>

ApplyNumber ==
    /\ pres.parser = "none"
    /\ pres' = [parser |-> "number", r |-> number(inp, <<>>)]
    /\ UNCHANGED <<overflow_checks, inp, astVars, readerVars>>

ApplyWord ==
    /\ pres.parser = "none"
    /\ pres' = [parser |-> "word", r |-> word(inp, <<>>)]
    /\ UNCHANGED <<overflow_checks, inp, astVars, readerVars>>

NextParse ==
    \/ ApplyValue
    \/ ApplyComplement
    \/ ApplySequence
    \/ ApplyNumber
    \/ ApplyWord

SpecParse == InitParse /\ [][NextParse]_vars

\* The results of the four alternatives on the text, in the order of alt!.
Alternatives ==
    <<complement(inp, <<>>), sequence(inp, <<>>), number(inp, <<>>), word(inp, <<>>)>>

\* The first of the results a that succeeded, 0 when none did.
FirstOk(a) ==
    IF a[1].st = "Ok" THEN 1
    ELSE IF a[2].st = "Ok" THEN 2
    ELSE IF a[3].st = "Ok" THEN 3
    ELSE IF a[4].st = "Ok" THEN 4
    ELSE 0

\* The first of the results a that is not Error, 0 when all four are.
FirstNotError(a) ==
    IF a[1].st # "Error" THEN 1
    ELSE IF a[2].st # "Error" THEN 2
    ELSE IF a[3].st # "Error" THEN 3
    ELSE IF a[4].st # "Error" THEN 4
    ELSE 0

\* r, the dispatcher's result, is the result of the first of a that succeeded
\* and is a failure when none did.
IsFirstSuccess(r, a) ==
    IF FirstOk(a) = 0 THEN r.st # "Ok" ELSE r = a[FirstOk(a)]

\* C9, as claimed: the dispatcher returns the result of the first of
\* Complement, Sequence, Number, Word that succeeds and fails only when all
\* four fail; a Complement attempt that finds no ':' after its first word, the
\* word running to the end of the input included, is a failure the
\* dispatcher falls through.
C9_FirstSuccess ==
    pres.parser = "value" => IsFirstSuccess(pres.r, Alternatives)

\* r is the result of the first of a that is not Error, and Error when all
\* four are; w is the result of word_str on the text.
IsFirstNotError(r, a, w) ==
    /\ IF FirstNotError(a) = 0 THEN r.st = "Error" ELSE r = a[FirstNotError(a)]
    /\ r.st = "Ok" =>
         /\ FirstOk(a) # 0
         /\ r = a[FirstOk(a)]
         /\ \A j \in 1..(FirstOk(a) - 1) : a[j].st = "Error"
    /\ w.st = "Ok" /\ w.rest[1] # ":" =>
         /\ a[1].st = "Error"
         /\ r = (IF a[2].st # "Error" THEN a[2]
                 ELSE IF a[3].st # "Error" THEN a[3] ELSE a[4])
    /\ w.st = "Incomplete" => r.st = "Incomplete" /\ a[1].st = "Incomplete"

\* C9, amended: the dispatcher returns the result of the first alternative
\* that does not report Error, and reports Error only when all four do.  A
\* result of Ok is the result of the first alternative that succeeds, every
\* alternative before it having reported Error.  A Complement attempt whose
\* first word is followed by a character other than ':' reports Error and the
\* dispatcher falls through to Sequence, Number and Word; when the first word
\* runs to the end of the input (the text holds no word terminator) the
\* attempt is Incomplete and so is the dispatcher's result: it does not fall
\* through.
C9_FirstNotError ==
    pres.parser = "value" => IsFirstNotError(pres.r, Alternatives, word_str(inp))

\* C9 witness: the dispatcher was applied to a text on which Number succeeds
\* and the result is Incomplete, the first word of the Complement attempt
\* having run to the end of the input.
C9_Witness ==
    /\ pres.parser = "value"
    /\ pres.r.st = "Incomplete"
    /\ number(inp, <<>>).st = "Ok"
    /\ word_str(inp).st = "Incomplete"

(***************************************************************************)
(* SpecSeq: the dispatcher or the sequence parser is applied to a text     *)
(* made of number literals and delimiters: the literals 1, 2, ... (or 1.5, *)
(* 2.5, ...), each but the first preceded by the delimiter delim, the      *)
(* first too when lead; a run ws of whitespace directly before or after    *)
(* the delimiter in front of literal ws_at (0: none); then the text stop.  *)
(***************************************************************************)
DigitOf(j) == CASE j = 1 -> "1" [] j = 2 -> "2" [] j = 3 -> "3" [] j = 4 -> "4" [] OTHER -> "5"

Literal(j, frac) == IF frac THEN <<DigitOf(j), ".", "5">> ELSE <<DigitOf(j)>>

SeqPiece(p, j) ==
    (IF j > 1 \/ p.lead
     THEN (IF p.ws_at = j /\ p.before THEN p.ws ELSE <<>>)
          \o <<p.delim>>
          \o (IF p.ws_at = j /\ ~p.before THEN p.ws ELSE <<>>)
     ELSE <<>>)
    \o Literal(j, p.frac)

RECURSIVE SeqPieces(_, _)
SeqPieces(p, j) == IF j > p.n THEN <<>> ELSE SeqPiece(p, j) \o SeqPieces(p, j + 1)

SeqText(p) == SeqPieces(p, 1) \o p.stop

WhitespaceRuns == {<<" ">>, <<"\t">>, <<"\n">>, <<" ", "\t">>}

SeqParams ==
    { p \in [lead : BOOLEAN, delim : {",", ";"}, n : 1..MaxElems, frac : BOOLEAN,
             ws_at : 0..MaxElems, before : BOOLEAN, ws : WhitespaceRuns,
             stop : {<<>>, <<" ">>, <<".">>}] :
        /\ p.ws_at <= p.n
        /\ p.ws_at = 1 => p.lead
        /\ p.ws_at = 0 => p.before /\ p.ws = <<" ">> }

\* The text without the whitespace around its delimiters: every whitespace
\* character but a final one (the stop) is dropped.
RECURSIVE Squeeze(_)
Squeeze(t) ==
    IF Len(t) <= 1 THEN t
    ELSE IF is_whitespace(t[1]) THEN Squeeze(Tail(t))
    ELSE <<t[1]>> \o Squeeze(Tail(t))

\* The literals are too short to overflow a u32.
InitSeq ==
    /\ overflow_checks = TRUE
    /\ inp \in {SeqText(p) : p \in SeqParams}
    /\ pres = NoParse
    /\ AstIdle /\ ReaderIdle

NextSeq ==
    \/ ApplyValue
    \/ ApplySequence

SpecSeq == InitSeq /\ [][NextSeq]_vars

\* The Number the literal Literal(j, frac) denotes.
LiteralValue(j, frac) ==
    Number(F64(FALSE, U32(j), IF frac THEN <<[num |-> U32(5), len |-> 1]>> ELSE <<>>, <<>>))

\* r is a success that yields the Sequence of the literals 1..n, in order,
\* and leaves rest unconsumed.
IsSequenceOf(r, n, frac, rest) ==
    /\ r.st = "Ok"
    /\ r.out.tag = "Sequence"
    /\ r.h[r.out.ref] = VecNode([j \in 1..n |-> LiteralValue(j, frac)])
    /\ r.rest = rest

\* The texts of n >= 2 literals joined by one delimiter, with no whitespace.
Joined(p) == p.n >= 2 /\ p.ws_at = 0

\* C7, as claimed: the dispatcher on n >= 2 number literals joined by one and
\* the same delimiter, with no leading delimiter (1,2,3), yields the
\* n-element Sequence of those numbers in input order and consumes all n
\* literals.
C7_NoLeadingDelimiter ==
    pres.parser = "value" =>
      \A p \in SeqParams :
        Joined(p) /\ ~p.lead /\ inp = SeqText(p) =>
          IsSequenceOf(pres.r, p.n, p.frac, p.stop)

\* C7, amended: the dispatcher on n >= 2 number literals, each preceded by
\* one and the same delimiter (the first literal too: ,1,2,3) and the last
\* followed by one space or one '.' that ends the text, yields the n-element
\* Sequence of those numbers in input order and leaves exactly that final
\* character.  With no leading delimiter it yields the first Number alone
\* and leaves everything after the first literal unconsumed.
C7_LeadingDelimiter ==
    pres.parser = "value" =>
      \A p \in SeqParams :
        Joined(p) /\ p.stop # <<>> /\ inp = SeqText(p) =>
          IF p.lead THEN IsSequenceOf(pres.r, p.n, p.frac, p.stop)
          ELSE /\ pres.r.st = "Ok"
               /\ pres.r.out = LiteralValue(1, p.frac)
               /\ pres.r.rest = Drop(inp, Len(Literal(1, p.frac)))

\* C7 witness: the dispatcher was applied to three literals, each preceded by
\* the delimiter, and yielded a Sequence of three elements.
C7_Witness ==
    /\ pres.parser = "value"
    /\ \E p \in SeqParams : Joined(p) /\ p.lead /\ p.n = 3 /\ inp = SeqText(p)
    /\ pres.r.st = "Ok"
    /\ pres.r.out.tag = "Sequence"
    /\ Len(pres.r.h[pres.r.out.ref].items) = 3

\* r, the result on a text, and q, the result on the text without the
\* whitespace around its delimiters, are sequences of the same elements in
\* the same order that consume through the same last element.
SameSequence(r, q) ==
    q.st = "Ok" =>
      /\ r.st = "Ok"
      /\ r.h[r.out.ref].items = q.h[q.out.ref].items
      /\ r.rest = q.rest

\* C10, as claimed: whitespace directly before or directly after any
\* occurrence of the delimiter of a sequence, the leading one or a separating
\* one, is accepted and discarded: the sequence has the same elements in the
\* same order, and consumes through the same last element, as the sequence
\* parsed from the text without that whitespace.
C10_WhitespaceAround ==
    pres.parser = "sequence" =>
      \A p \in SeqParams :
        p.lead /\ p.ws_at # 0 /\ inp = SeqText(p) =>
          SameSequence(pres.r, sequence(Squeeze(inp), <<>>))

\* C10, amended: whitespace directly after any occurrence of the delimiter,
\* the leading one or a separating one, is accepted and discarded: the
\* sequence has the same elements in the same order, and consumes through
\* the same last element, as the sequence parsed from the text without that
\* whitespace.  Whitespace directly before a delimiter is not: before a
\* separating delimiter the sequence ends at the element before it, and
\* before the leading delimiter the sequence parser fails.
C10_WhitespaceAfter ==
    pres.parser = "sequence" =>
      \A p \in SeqParams :
        p.lead /\ p.ws_at # 0 /\ p.stop # <<>> /\ inp = SeqText(p) =>
          IF ~p.before
          THEN /\ SameSequence(pres.r, sequence(Squeeze(inp), <<>>))
               /\ IsSequenceOf(pres.r, p.n, p.frac, p.stop)
          ELSE IF p.ws_at = 1 THEN pres.r.st = "Error"
          ELSE IsSequenceOf(pres.r, p.ws_at - 1, p.frac,
                            Drop(inp, Len(SeqPieces([p EXCEPT !.n = p.ws_at - 1], 1))))

\* C10 witness: the sequence parser was applied to a text with whitespace
\* directly after a separating delimiter and yielded every element.
C10_Witness ==
    /\ pres.parser = "sequence"
    /\ \E p \in SeqParams :
         /\ p.lead /\ p.ws_at >= 2 /\ ~p.before /\ inp = SeqText(p)
         /\ IsSequenceOf(pres.r, p.n, p.frac, p.stop)

(***************************************************************************)
(* SpecNumber: the number parser is applied to a string of decimal digits  *)
(* followed by one space, in a build with overflow checks (debug) or       *)
(* without (release).                                                      *)
(***************************************************************************)
NumberDigits == {"4", "9"}

DigitStrings == UNION {[1..k -> NumberDigits] : k \in 1..MaxDigits}

InitNumber ==
    /\ overflow_checks \in BOOLEAN
    /\ inp \in {d \o <<" ">> : d \in DigitStrings}
    /\ pres = NoParse
    /\ AstIdle /\ ReaderIdle

NextNumber == ApplyNumber

SpecNumber == InitNumber /\ [][NextNumber]_vars

\* The decimal value of the digits of d from position k on, accumulated left
\* to right as value * 10 + digit from n = <<hi, lo>>: lo is a 16-bit limb and
\* hi holds all the bits above it, without a bound.
RECURSIVE DecimalValueFrom(_, _, _)
DecimalValueFrom(d, k, n) ==
    IF k > Len(d) THEN n
    ELSE LET lo == n[2] * 10 + DigitVal(d[k])
         IN  DecimalValueFrom(d, k + 1, <<n[1] * 10 + (lo \div Limb), lo % Limb>>)

DecimalValue(d) == DecimalValueFrom(d, 1, <<0, 0>>)

\* C8: for every non-empty string d of decimal digits, number(d followed by
\* one space) succeeds, leaves exactly that space and yields the Number whose
\* value is the decimal value of d, also when that value exceeds 2^32 - 1.
C8_DecimalValue ==
    pres.parser = "number" =>
      /\ pres.r.st = "Ok"
      /\ pres.r.rest = <<" ">>
      /\ pres.r.out = Number(F64(FALSE, DecimalValue(Take(inp, Len(inp) - 1)), <<>>, <<>>))

(***************************************************************************)
(* The line reader (ConlangReader) and the interactive loop (repl).  The   *)
(* line source is an iterator of Strings outside the program: src_left is  *)
(* the number of lines it still holds, and the text of a line is chosen    *)
(* when the line is pulled.                                                *)
(***************************************************************************)
LineAlphabet == {"e", ".", " ", "\r", ":"}

Eof == [kind |-> "eof", val |-> Nil, h |-> <<>>, rest |-> <<>>, line |-> <<>>]
Panicked == [kind |-> "panic", val |-> Nil, h |-> <<>>, rest |-> <<>>, line |-> <<>>]
ReturnedValue(r) ==
    [kind |-> "value", val |-> r.out, h |-> r.h, rest |-> r.rest, line |-> <<>>]
TooMuchInput(line) ==
    [kind |-> "leftover", val |-> Nil, h |-> <<>>, rest |-> line, line |-> line]

\* buf.chars().all(char::is_whitespace)
AllWhitespace(b) == \A k \in 1..Len(b) : char_is_whitespace(b[k])

\* parse_next without the clause for a line of whitespace: C1 (amended) fails
\* of it.
parse_next_strict(r, b) ==
    IF r.st # "Ok" THEN Panicked
    ELSE IF r.rest = <<>> THEN ReturnedValue(r)
    ELSE TooMuchInput(r.rest)

\* parse_next reporting the whole line as TooMuchInput where unwrap() panics:
\* C2 fails of it.
parse_next_no_unwrap(r, b) ==
    IF r.st # "Ok" THEN TooMuchInput(b)
    ELSE IF r.rest = <<>> \/ AllWhitespace(b) THEN ReturnedValue(r)
    ELSE TooMuchInput(r.rest)

\* parse_next after the line buf = b was pulled; r is the result of
\* value_line on b, which unwrap() turns into a panic unless it is Ok.
parse_next(r, b) ==
    IF r.st # "Ok" THEN Panicked
    ELSE IF r.rest = <<>> \/ AllWhitespace(b) THEN ReturnedValue(r)
    ELSE TooMuchInput(r.rest)

\* Iterator::next of a fused reader, which yields nothing once a pull has hit
\* TooMuchInput: C3 (amended) fails of it.
next_fused(result, seen) ==
    IF result.kind = "value" /\ ~seen THEN <<[val |-> result.val, h |-> result.h]>> ELSE <<>>

\* Iterator::next: self.parse_next().ok(); result is what parse_next returned
\* and seen whether an earlier pull hit TooMuchInput (of no effect).
next(result, seen) ==
    IF result.kind = "value" THEN <<[val |-> result.val, h |-> result.h]>> ELSE <<>>

\* repl writing a line in the arm None too: C4 fails of it.
writeln_always(printer, it) ==
    IF it # <<>> THEN Append(printer, it[1]) ELSE Append(printer, [val |-> Nil, h |-> <<>>])

\* The arm Some(v) of repl: writeln!(printer, "{:?}", v); the arm None writes
\* nothing.  The printer is the sequence of the values written (their
\* rendering by Debug is not modelled) and its writes succeed.
writeln(printer, it) ==
    IF it # <<>> THEN Append(printer, it[1]) ELSE printer

\* The state of the reader after a call, named name, that pulled the line b
\* (<<>> and pulled = 0 on an exhausted source), in which parse_next returned
\* result and the caller was handed it as the item it.
Returns(result, b, pulled, name, it) ==
    /\ pre_left' = src_left
    /\ src_left' = src_left - pulled
    /\ calls' = calls + 1
    /\ buf' = b
    /\ res' = result
    /\ op' = name
    /\ item' = it

\* Option<Value> of a pull in which parse_next returned result: a panic
\* unwinds through Iterator::next and hands the caller nothing.
Pulled(result) ==
    IF result.kind = "panic" THEN <<>> ELSE next(result, seen_leftover)

\* A call of parse_next on the line b, or on the exhausted source.
CallParseNext(result, b, pulled) ==
    /\ Returns(result, b, pulled, "parse_next", <<>>)
    /\ status' = IF result.kind = "panic" THEN "aborted" ELSE "running"
    /\ UNCHANGED <<seen_leftover, hist, out>>

\* A client calls parse_next.
ParseNext ==
    /\ status = "running"
    /\ calls < MaxCalls
    /\ \/ src_left = 0 /\ CallParseNext(Eof, <<>>, 0)
       \/ /\ src_left > 0
          /\ \E b \in Texts(LineAlphabet, MaxLineLen) :
               CallParseNext(parse_next(value_line(b, <<>>), b), b, 1)
    /\ UNCHANGED <<overflow_checks, astVars, parseVars>>

\* A pull on the value sequence on the line b, or on the exhausted source.
CallNext(result, b, pulled) ==
    /\ Returns(result, b, pulled, "next", Pulled(result))
    /\ seen_leftover' = (seen_leftover \/ result.kind = "leftover")
    /\ status' = IF result.kind = "panic" THEN "aborted" ELSE "running"
    /\ UNCHANGED <<hist, out>>

\* A client pulls on the reader's value sequence (Iterator::next).
IterNext ==
    /\ status = "running"
    /\ calls < MaxCalls
    /\ \/ src_left = 0 /\ CallNext(Eof, <<>>, 0)
       \/ /\ src_left > 0
          /\ \E b \in Texts(LineAlphabet, MaxLineLen) :
               CallNext(parse_next(value_line(b, <<>>), b), b, 1)
    /\ UNCHANGED <<overflow_checks, astVars, parseVars>>

\* The lines hold no digit: the build profile makes no difference.
Init ==
    /\ overflow_checks = TRUE
    /\ AstIdle /\ ParseIdle
    /\ src_left \in 0..MaxLines
    /\ pre_left = src_left /\ calls = 0 /\ buf = <<>>
    /\ res = NoResult /\ op = "none" /\ item = <<>> /\ seen_leftover = FALSE
    /\ status = "running" /\ hist = <<>> /\ out = <<>>

Next ==
    \/ ParseNext
    \/ IterNext

Spec == Init /\ [][Next]_vars

\* The last call pulled exactly one line, or none from an exhausted source
\* and reported Eof.
PulledOneLine ==
    IF pre_left = 0 THEN res = Eof /\ src_left = 0 ELSE src_left = pre_left - 1

\* What the last call reported for a line on which value_line succeeded with
\* r, other than whether it returned the value.
Classified(r) ==
    /\ res.kind \in {"value", "leftover"}
    /\ res.kind = "value" => res.val = r.out /\ res.h = r.h
    /\ res.kind = "leftover" => res.line = r.rest

\* C1, as claimed: parse_next pulls exactly one line per call; on an exhausted
\* source it reports Eof; on a line where the grammar matches it returns the
\* parsed Value if and only if the text left after the value and the optional
\* '.' is empty, and otherwise reports TooMuchInput with exactly that text.
C1_EmptyRemainderOnly ==
    calls > 0 =>
      /\ PulledOneLine
      /\ pre_left > 0 /\ value_line(buf, <<>>).st = "Ok" =>
           /\ Classified(value_line(buf, <<>>))
           /\ res.kind = "value" <=> value_line(buf, <<>>).rest = <<>>

\* C1, amended: parse_next pulls exactly one line per call; on an exhausted
\* source it reports Eof; on a line where the grammar matches it returns the
\* parsed Value if and only if the text left after the value and the optional
\* '.' is empty or every character of the line is whitespace (char::
\* is_whitespace), and otherwise reports TooMuchInput with exactly that text.
C1_EmptyRemainderOrBlank ==
    calls > 0 =>
      /\ PulledOneLine
      /\ pre_left > 0 /\ value_line(buf, <<>>).st = "Ok" =>
           /\ Classified(value_line(buf, <<>>))
           /\ res.kind = "value" <=>
                value_line(buf, <<>>).rest = <<>> \/ AllWhitespace(buf)

\* C1 witness: parse_next returned the Value of a line of whitespace on which
\* the grammar matched and left text unconsumed.
C1_Witness ==
    /\ op = "parse_next"
    /\ pre_left > 0
    /\ res.kind = "value"
    /\ res.rest # <<>>
    /\ AllWhitespace(buf)

\* None of Complement, Sequence, Number, Word matches at the start of b.
NoMatch(b) ==
    /\ complement(b, <<>>).st # "Ok"
    /\ sequence(b, <<>>).st # "Ok"
    /\ number(b, <<>>).st # "Ok"
    /\ word(b, <<>>).st # "Ok"

\* C2: on every pulled line on which none of Complement, Sequence, Number,
\* Word matches at the start of the line, parse_next aborts the process: it
\* returns no Value, Eof or TooMuchInput for the line; and after an abort no
\* step is taken: no later line is read.
C2_NoMatchAborts ==
    /\ [](calls > 0 /\ pre_left > 0 /\ NoMatch(buf) =>
            /\ status = "aborted"
            /\ res = Panicked
            /\ item = <<>>)
    /\ [][status # "aborted"]_vars

\* C2 witness: a call pulled a line that begins with ':', with a line left in
\* the source, and the process aborted.
C2_Witness ==
    /\ calls > 0
    /\ buf # <<>> /\ buf[1] = ":"
    /\ NoMatch(buf)
    /\ src_left > 0
    /\ status = "aborted"

\* C3, as claimed: once a pull on the value sequence has hit a line that
\* reports TooMuchInput the sequence has ended: every later pull yields no
\* value.
C3_EndsAtLeftover ==
    op = "next" /\ seen_leftover => item = <<>>

\* C3, amended: a pull on the value sequence that hits a line reporting
\* TooMuchInput yields no value for that line, and the sequence has not ended:
\* every pull, one after such a line too, pulls the next line of the source
\* and yields its Value exactly when parse_next returns one.
C3_SkipsLeftover ==
    op = "next" =>
      /\ PulledOneLine
      /\ res.kind = "leftover" => item = <<>> /\ seen_leftover
      /\ res.kind = "value" => item = <<[val |-> res.val, h |-> res.h]>>
      /\ res.kind # "value" => item = <<>>

\* C3 witness: a pull after one that hit TooMuchInput yielded a value.
C3_Witness ==
    /\ op = "next"
    /\ seen_leftover
    /\ res.kind = "value"
    /\ item # <<>>

(***************************************************************************)
(* SpecRepl: one run of repl over a ConlangReader, as main starts it.      *)
(***************************************************************************)
\* One iteration of the loop of repl: match reader.next() { Some(v) =>
\* writeln!(...), None => return }, on the line b or on the exhausted source.
repl(result, b, pulled) ==
    /\ Returns(result, b, pulled, "next", Pulled(result))
    /\ seen_leftover' = (seen_leftover \/ result.kind = "leftover")
    /\ hist' = Append(hist, result)
    /\ out' = writeln(out, Pulled(result))
    /\ status' = IF result.kind = "panic" THEN "aborted"
                 ELSE IF Pulled(result) = <<>> THEN "returned"
                 ELSE "running"

ReplStep ==
    /\ status = "running"
    /\ \/ src_left = 0 /\ repl(Eof, <<>>, 0)
       \/ /\ src_left > 0
          /\ \E b \in Texts(LineAlphabet, MaxLineLen) :
               repl(parse_next(value_line(b, <<>>), b), b, 1)
    /\ UNCHANGED <<overflow_checks, astVars, parseVars>>

NextRepl == ReplStep

SpecRepl == Init /\ [][NextRepl]_vars

\* The values of the first n results of hs, as the printer receives them.
Printed(hs, n) == [k \in 1..n |-> [val |-> hs[k].val, h |-> hs[k].h]]

\* The loop pulls no line after a result that is not a Value: every result
\* but the last is a Value, and the loop has returned exactly when the last
\* one is TooMuchInput or Eof.
StopsAtFirstNone ==
    /\ \A k \in 1..(Len(hist) - 1) : hist[k].kind = "value"
    /\ status = "returned" <=>
         hist # <<>> /\ hist[Len(hist)].kind \in {"leftover", "eof"}
    /\ status # "running" => Len(out) = Len(hist) - 1

\* C4, as claimed: the loop prints exactly one output line per fully consumed
\* line (a line whose text after the value and the optional '.' is empty), in
\* input order, and stops at the first line that reports TooMuchInput or when
\* the source is exhausted; nothing is printed for that line and no line after
\* it is pulled.
C4_OnePerConsumedLine ==
    /\ StopsAtFirstNone
    /\ Len(out) = Cardinality({k \in 1..Len(hist) :
                                 hist[k].kind # "panic" /\ hist[k].kind # "eof"
                                   /\ hist[k].rest = <<>>})
    /\ out = Printed(hist, Len(out))

\* C4, amended: the loop prints exactly one output line per line for which
\* parse_next returns a Value (a fully consumed line, or a line of whitespace
\* on which the grammar matched), in input order, and stops at the first line
\* that reports TooMuchInput or when the source is exhausted; nothing is
\* printed for that line and no line after it is pulled.
C4_OnePerValue ==
    /\ StopsAtFirstNone
    /\ Len(out) = Cardinality({k \in 1..Len(hist) : hist[k].kind = "value"})
    /\ out = Printed(hist, Len(out))

\* C4 witness: the loop printed a line, then returned at a line that reported
\* TooMuchInput, leaving a line in the source.
C4_Witness ==
    /\ status = "returned"
    /\ Len(out) >= 1
    /\ hist[Len(hist)].kind = "leftover"
    /\ src_left > 0

====
